---- MODULE Spec2Model ----
(***************************************************************************)
(* Model of repo-processor.py: the recursive directory walk                *)
(* (process_directory), the file filter (should_include_file) and the      *)
(* token estimate and output splitting done at the end of main.            *)
(*                                                                         *)
(* Strings (paths, names, patterns, extensions) are sequences of one-      *)
(* character strings, so that prefix matching, joining, extension          *)
(* splitting and code-point ordering are computed, not assumed.            *)
(* A text (a file's content, the output file) is a sequence of tokens;     *)
(* the tokenizer returns their number.  Every line of markup the walk      *)
(* writes is one token, a record that also carries the path it is about.   *)
(***************************************************************************)
EXTENDS Integers, Sequences, FiniteSets, TLC

VARIABLES
    fs,              \* the directory tree on disk: path -> entry
    params,          \* vars(args): the parsed command line
    stack,           \* the active process_directory calls, innermost last
    output,          \* the text written to output_file so far
    excluded_files,  \* the (path, size) pairs appended by the walk
    log,             \* the records handed to logging
    pc,              \* where main is: "walk", "estimate", "split", "done", "crashed"
    error,           \* the uncaught exception that ended the run, if any
    total_tokens,    \* main's total_tokens
    split_files,     \* the split artifacts written: part number and content
    visited          \* history: the item paths the loop of line 57 has taken up

vars == <<fs, params, stack, output, excluded_files, log, pc, error,
          total_tokens, split_files, visited>>

----------------------------------------------------------------------------
(* Bounds of the model. *)

MaxDepthArg == 2
MaxTokenLimitArg == 2
MaxSplitThresholdArg == 3
JsonSizeThresholdArg == 2
MaxFileSizeArg == 3

----------------------------------------------------------------------------
(* Strings. *)

\* ord(): the code point of a character, which is what str comparison uses.
Ord(c) ==
    CASE c = "." -> 46
      [] c = "/" -> 47
      [] c = "B" -> 66
      [] c = "X" -> 88
      [] c = "a" -> 97
      [] c = "b" -> 98
      [] c = "c" -> 99
      [] c = "d" -> 100
      [] c = "f" -> 102
      [] c = "j" -> 106
      [] c = "k" -> 107
      [] c = "m" -> 109
      [] c = "n" -> 110
      [] c = "o" -> 111
      [] c = "r" -> 114
      [] c = "s" -> 115
      [] c = "x" -> 120

\* s1 < s2 on Python strings: lexicographic by code point, a proper prefix first.
RECURSIVE StrLess(_, _)
StrLess(s1, s2) ==
    IF s2 = <<>> THEN FALSE
    ELSE IF s1 = <<>> THEN TRUE
    ELSE IF Head(s1) = Head(s2) THEN StrLess(Tail(s1), Tail(s2))
    ELSE Ord(Head(s1)) < Ord(Head(s2))

\* str.lower() on the characters that occur.
LowerChar(c) == IF c = "B" THEN "b" ELSE IF c = "X" THEN "x" ELSE c

lower(s) == [i \in 1..Len(s) |-> LowerChar(s[i])]

\* str.rfind(c): the last position of c in s, 1-based, 0 when absent.
rfind(s, c) ==
    IF \E i \in 1..Len(s) : s[i] = c
    THEN CHOOSE i \in 1..Len(s) : s[i] = c /\ \A j \in (i+1)..Len(s) : s[j] # c
    ELSE 0

\* os.path.splitext(p)[1]: from the last dot of the last component, unless
\* that component has nothing but dots before it.
splitext_ext(p) ==
    LET sepIndex == rfind(p, "/")
        dotIndex == rfind(p, ".")
    IN  IF dotIndex > sepIndex
           /\ \E k \in (sepIndex+1)..(dotIndex-1) : p[k] # "."
        THEN SubSeq(p, dotIndex, Len(p))
        ELSE <<>>

\* os.path.join(path, item).
join(path, item) ==
    IF item # <<>> /\ Head(item) = "/" THEN item
    ELSE IF path = <<>> \/ path[Len(path)] = "/" THEN path \o item
    ELSE path \o <<"/">> \o item

\* os.path.dirname and basename of a joined path.
dirname(p) == SubSeq(p, 1, rfind(p, "/") - 1)

basename(p) == SubSeq(p, rfind(p, "/") + 1, Len(p))

\* re.match(pattern, s) for patterns of literal characters and the wildcard
\* ".": the pattern has to match at the start of s, not all of s.
re_match(pattern, s) ==
    /\ Len(pattern) <= Len(s)
    /\ \A i \in 1..Len(pattern) : pattern[i] = "." \/ pattern[i] = s[i]

\* p is a proper ancestor directory of q.
IsAncestor(p, q) ==
    /\ Len(p) < Len(q)
    /\ SubSeq(q, 1, Len(p)) = p
    /\ q[Len(p) + 1] = "/"

----------------------------------------------------------------------------
(* Texts and the tokenizer. *)

\* One token of file content.
Word(w) == [kind |-> "text", depth |-> 0, item |-> w, path |-> <<>>]

\* One line of markup written by the walk: kind says which format string,
\* depth is the indentation, item the name printed; path is the entry the
\* line is about (the printed line itself only shows depth and item).
Line(kind, depth, item, path) ==
    [kind |-> kind, depth |-> depth, item |-> item, path |-> path]

\* count_tokens(text): the tokenizer is an external function of the text;
\* here a text is its token sequence.
count_tokens(text) == Len(text)

----------------------------------------------------------------------------
(* The directory trees the walk is run on. *)

DirEntry(listable) ==
    [kind |-> "dir", size |-> 0, content |-> <<>>, readable |-> FALSE,
     listable |-> listable]

FileEntry(size, ntokens, readable) ==
    [kind |-> "file", size |-> size,
     content |-> [i \in 1..ntokens |-> Word(<<"x">>)],
     readable |-> readable, listable |-> FALSE]

\* Mixed directories and files whose names interleave in code-point order,
\* with nested directories named nm.
TreeMixed ==
       <<"r">> :> DirEntry(TRUE)
    @@ <<"r","/","B">> :> DirEntry(TRUE)
    @@ <<"r","/","B","/","k">> :> FileEntry(1, 1, TRUE)
    @@ <<"r","/","B","/","n","m">> :> DirEntry(TRUE)
    @@ <<"r","/","B","/","n","m","/","f">> :> FileEntry(1, 0, TRUE)
    @@ <<"r","/","a",".","X">> :> FileEntry(2, 1, TRUE)
    @@ <<"r","/","c">> :> FileEntry(1, 3, TRUE)
    @@ <<"r","/","n","m">> :> DirEntry(TRUE)
    @@ <<"r","/","n","m","/","d">> :> DirEntry(TRUE)
    @@ <<"r","/","n","m","/","d","/","f">> :> FileEntry(1, 1, TRUE)
    @@ <<"r","/","n","m","/","k",".","x">> :> FileEntry(1, 1, TRUE)

\* A subdirectory that cannot be listed, an undecodable file, an oversized file.
TreeErrors ==
       <<"r">> :> DirEntry(TRUE)
    @@ <<"r","/","B">> :> DirEntry(FALSE)
    @@ <<"r","/","c">> :> FileEntry(1, 1, FALSE)
    @@ <<"r","/","s">> :> DirEntry(TRUE)
    @@ <<"r","/","s","/","k">> :> FileEntry(4, 1, TRUE)

\* A chain of directories deeper than any max_depth, and a large JSON file.
TreeDeep ==
       <<"r">> :> DirEntry(TRUE)
    @@ <<"r","/","d",".","j","s","o","n">> :> FileEntry(3, 1, TRUE)
    @@ <<"r","/","s">> :> DirEntry(TRUE)
    @@ <<"r","/","s","/","k">> :> FileEntry(1, 2, TRUE)
    @@ <<"r","/","s","/","s">> :> DirEntry(TRUE)
    @@ <<"r","/","s","/","s","/","s">> :> DirEntry(TRUE)
    @@ <<"r","/","s","/","s","/","s","/","s">> :> DirEntry(TRUE)
    @@ <<"r","/","s","/","s","/","s","/","s","/","k">> :> FileEntry(1, 1, TRUE)

\* An empty root directory.
TreeEmpty == <<"r">> :> DirEntry(TRUE)

\* A root that cannot be listed.
TreeNoRoot == <<"r">> :> DirEntry(FALSE)

Trees == {TreeMixed, TreeErrors, TreeDeep, TreeEmpty, TreeNoRoot}

\* The names os.listdir(path) returns, as a set.
Children(path) ==
    {basename(q) : q \in {e \in DOMAIN fs : Len(e) > Len(path) /\ dirname(e) = path}}

\* os.listdir(path) returns the names in an order the operating system picks.
Listings(path) ==
    LET S == Children(path)
        n == Cardinality(S)
    IN  {l \in [1..n -> S] : \A i, j \in 1..n : i # j => l[i] # l[j]}

\* Mutant: the listing is used in the order the operating system returned it.
sorted_Missing(l) == l

\* sorted(names): ascending by str comparison (insertion into a sorted prefix).
RECURSIVE Insert(_, _)
Insert(x, s) ==
    IF s = <<>> THEN <<x>>
    ELSE IF StrLess(x, Head(s)) THEN <<x>> \o s
    ELSE <<Head(s)>> \o Insert(x, Tail(s))

RECURSIVE sorted(_)
sorted(l) == IF l = <<>> THEN <<>> ELSE Insert(Head(l), sorted(Tail(l)))

----------------------------------------------------------------------------
(* The command line. *)

IgnorePatternArgs ==
    { <<>>,
      << <<"n","m">> >>,
      << <<"r","/","n","m">>, <<".","/","a">> >> }

NoTraverseArgs == { {}, { <<"n","m">> } }

ExcludeExtensionArgs == { {}, { <<".","x">> } }

Params ==
    [path : { <<"r">> },
     token_limit : 0..MaxTokenLimitArg,
     json_size_threshold : {JsonSizeThresholdArg},
     exclude_extensions : ExcludeExtensionArgs,
     ignore_patterns : IgnorePatternArgs,
     max_depth : (-1)..MaxDepthArg,
     max_file_size : {MaxFileSizeArg},
     split_threshold : (-1)..MaxSplitThresholdArg,
     no_traverse_dirs : NoTraverseArgs]

----------------------------------------------------------------------------
(* should_include_file. *)

LogRec(level, msg, path) == [level |-> level, msg |-> msg, path |-> path]

should_include_file(file_path, file_size, p) ==
    LET ext == lower(splitext_ext(file_path))
    IN  IF ext \in p.exclude_extensions THEN FALSE
        ELSE IF ext = <<".","j","s","o","n">> /\ file_size > p.json_size_threshold
             THEN FALSE
        ELSE IF file_size > p.max_file_size THEN FALSE
        ELSE TRUE

\* The debug record should_include_file logs on the way.
should_include_log(file_path, file_size, p) ==
    LET ext == lower(splitext_ext(file_path))
    IN  IF ext \in p.exclude_extensions
        THEN <<LogRec("debug", "Excluded file due to extension", file_path)>>
        ELSE IF ext = <<".","j","s","o","n">> /\ file_size > p.json_size_threshold
             THEN <<LogRec("debug", "Excluded JSON file due to size", file_path)>>
        ELSE IF file_size > p.max_file_size
             THEN <<LogRec("debug", "Excluded file due to size", file_path)>>
        ELSE <<>>

----------------------------------------------------------------------------
(* process_directory: one frame per active call. *)

Frame(path, current_depth) ==
    [path |-> path, current_depth |-> current_depth, items |-> <<>>, at |-> "call"]

Top == stack[Len(stack)]

Walking == pc = "walk" /\ stack # <<>>

\* The caller's frames once the innermost call has returned.
Pop == SubSeq(stack, 1, Len(stack) - 1)

\* The stack with the innermost frame's loop moved past the current item.
Advance == [stack EXCEPT ![Len(stack)].items = Tail(@)]

\* Mutant: the extension and size filter is consulted before the ignore patterns.
Ignored_AfterFilter(item_path) ==
    /\ \E i \in 1..Len(params.ignore_patterns) :
          re_match(params.ignore_patterns[i], item_path)
    /\ ~(fs[item_path].kind = "file"
          /\ ~should_include_file(item_path, fs[item_path].size, params))

\* any(re.match(pattern, item_path) for pattern in params['ignore_patterns'])
Ignored(item_path) ==
    \E i \in 1..Len(params.ignore_patterns) :
        re_match(params.ignore_patterns[i], item_path)

\* Mutant: the depth test is off by one.
TooDeep_OffByOne(current_depth) == current_depth > params.max_depth + 1

\* Mutant: the depth test is missing.
TooDeep_Never(current_depth) == FALSE

\* Line 51: current_depth > params['max_depth'].
TooDeep(current_depth) == current_depth > params.max_depth

\* Mutant: the path, not the name, is looked up in no_traverse_dirs.
NoTraverse_ByPath(name) == join(Top.path, name) \in params.no_traverse_dirs

\* Line 67: item in params['no_traverse_dirs'].
NoTraverse(name) == name \in params.no_traverse_dirs

Init ==
    /\ fs \in Trees
    /\ params \in Params
    /\ stack = <<Frame(params.path, 0)>>
    /\ output = <<>>
    /\ excluded_files = <<>>
    /\ log = <<>>
    /\ pc = "walk"
    /\ error = [type |-> "none", path |-> <<>>]
    /\ total_tokens = 0
    /\ split_files = <<>>
    /\ visited = {}

\* Lines 51-53: the call is deeper than max_depth and returns at once.
MaxDepthReturn ==
    /\ Walking /\ Top.at = "call"
    /\ TooDeep(Top.current_depth)
    /\ log' = Append(log, LogRec("debug", "Max depth reached", Top.path))
    /\ stack' = Pop
    /\ pc' = IF Len(stack) = 1 THEN "estimate" ELSE pc
    /\ UNCHANGED <<fs, params, output, excluded_files, error, total_tokens, split_files, visited>>

\* Line 55: os.listdir raises; nothing in process_directory or main catches
\* it, so every active call is unwound and the run ends with the traceback.
ListdirError ==
    /\ Walking /\ Top.at = "call"
    /\ ~TooDeep(Top.current_depth)
    /\ ~fs[Top.path].listable
    /\ error' = [type |-> "PermissionError", path |-> Top.path]
    /\ stack' = <<>>
    /\ pc' = "crashed"
    /\ UNCHANGED <<fs, params, output, excluded_files, log, total_tokens, split_files, visited>>

\* Line 55: items = sorted(os.listdir(path)).
ListDirectory ==
    /\ Walking /\ Top.at = "call"
    /\ ~TooDeep(Top.current_depth)
    /\ fs[Top.path].listable
    /\ \E listing \in Listings(Top.path) :
          stack' = [stack EXCEPT ![Len(stack)].items = sorted(listing),
                                 ![Len(stack)].at = "loop"]
    /\ UNCHANGED <<fs, params, output, excluded_files, log, pc, error,
                   total_tokens, split_files, visited>>

InLoop == Walking /\ Top.at = "loop" /\ Top.items # <<>>

item == Head(Top.items)

item_path == join(Top.path, item)

\* Lines 60-63: the item matches an ignore pattern.
ItemIgnored ==
    /\ InLoop
    /\ Ignored(item_path)
    /\ log' = Append(log, LogRec("debug", "Ignored item due to pattern", item_path))
    /\ output' = Append(output, Line("ignored", Top.current_depth, item, item_path))
    /\ visited' = visited \cup {item_path}
    /\ stack' = Advance
    /\ UNCHANGED <<fs, params, excluded_files, pc, error, total_tokens, split_files>>

\* Lines 65-68: a directory that is traversed: header, then the recursive call.
ItemDirectoryTraverse ==
    /\ InLoop
    /\ ~Ignored(item_path)
    /\ fs[item_path].kind = "dir"
    /\ ~NoTraverse(item)
    /\ output' = Append(output, Line("dir", Top.current_depth, item, item_path))
    /\ visited' = visited \cup {item_path}
    /\ stack' = Append(Advance, Frame(item_path, Top.current_depth + 1))
    /\ UNCHANGED <<fs, params, excluded_files, log, pc, error, total_tokens, split_files>>

\* Lines 65-70: a directory named in no_traverse_dirs: header only.
ItemDirectoryNoTraverse ==
    /\ InLoop
    /\ ~Ignored(item_path)
    /\ fs[item_path].kind = "dir"
    /\ NoTraverse(item)
    /\ output' = Append(output, Line("dir", Top.current_depth, item, item_path))
    /\ log' = Append(log, LogRec("debug", "Directory not traversed", item_path))
    /\ visited' = visited \cup {item_path}
    /\ stack' = Advance
    /\ UNCHANGED <<fs, params, excluded_files, pc, error, total_tokens, split_files>>

\* Mutant: the token limit is not applied.
RenderedBody_NoLimit(path, depth, name) ==
    IF ~fs[path].readable
    THEN <<Line("error", depth + 1, name, path)>>
    ELSE <<Line("content", depth + 1, name, path)>> \o fs[path].content
            \o <<Line("blank", 0, name, path)>>

\* Lines 77-89: what is written under the header of an included file.
RenderedBody(path, depth, name) ==
    IF ~fs[path].readable
    THEN <<Line("error", depth + 1, name, path)>>
    ELSE IF count_tokens(fs[path].content) <= params.token_limit
    THEN <<Line("content", depth + 1, name, path)>> \o fs[path].content
            \o <<Line("blank", 0, name, path)>>
    ELSE <<Line("omitted", depth + 1, name, path)>>

\* Lines 86-88: what is logged while rendering.
RenderedLog(path) ==
    IF ~fs[path].readable
    THEN <<LogRec("error", "Error processing file", path)>>
    ELSE IF count_tokens(fs[path].content) <= params.token_limit
    THEN <<>>
    ELSE <<LogRec("info", "Content excluded due to token limit", path)>>

\* Lines 72-89: a file that should_include_file accepts.
ItemFileIncluded ==
    /\ InLoop
    /\ ~Ignored(item_path)
    /\ fs[item_path].kind = "file"
    /\ should_include_file(item_path, fs[item_path].size, params)
    /\ output' = Append(output, Line("file", Top.current_depth, item, item_path))
                    \o RenderedBody(item_path, Top.current_depth, item)
    /\ log' = log \o should_include_log(item_path, fs[item_path].size, params)
                  \o RenderedLog(item_path)
    /\ visited' = visited \cup {item_path}
    /\ stack' = Advance
    /\ UNCHANGED <<fs, params, excluded_files, pc, error, total_tokens, split_files>>

\* Lines 72-74, 90-92: a file that should_include_file rejects.
ItemFileExcluded ==
    /\ InLoop
    /\ ~Ignored(item_path)
    /\ fs[item_path].kind = "file"
    /\ ~should_include_file(item_path, fs[item_path].size, params)
    /\ output' = Append(output, Line("excluded", Top.current_depth, item, item_path))
    /\ excluded_files' = Append(excluded_files, <<item_path, fs[item_path].size>>)
    /\ log' = log \o should_include_log(item_path, fs[item_path].size, params)
    /\ visited' = visited \cup {item_path}
    /\ stack' = Advance
    /\ UNCHANGED <<fs, params, pc, error, total_tokens, split_files>>

\* Line 57: the loop is exhausted and the call returns.
ReturnFromDirectory ==
    /\ Walking /\ Top.at = "loop" /\ Top.items = <<>>
    /\ stack' = Pop
    /\ pc' = IF Len(stack) = 1 THEN "estimate" ELSE pc
    /\ UNCHANGED <<fs, params, output, excluded_files, log, error, total_tokens, split_files, visited>>

----------------------------------------------------------------------------
(* main, after the walk. *)

\* Line 123, 128: output_files holds the one output file.
output_files == <<output>>

RECURSIVE SumTokens(_)
SumTokens(files) ==
    IF files = <<>> THEN 0
    ELSE count_tokens(Head(files)) + SumTokens(Tail(files))

\* Lines 133-148: list the excluded files, close the output, count its tokens.
EstimateTokens ==
    /\ pc = "estimate"
    /\ total_tokens' = SumTokens(output_files)
    /\ log' = log \o [i \in 1..Len(excluded_files) |->
                         LogRec("info", "Excluded", excluded_files[i][1])]
    /\ pc' = "split"
    /\ UNCHANGED <<fs, params, stack, output, excluded_files, error, split_files, visited>>

\* Mutant: the loop never closes a part, it only accumulates.
RECURSIVE SplitLoop_NoFlush(_, _)
SplitLoop_NoFlush(files, st) ==
    IF files = <<>> THEN st
    ELSE SplitLoop_NoFlush(Tail(files),
            [current_tokens |-> st.current_tokens + count_tokens(Head(files)),
             current_content |-> st.current_content \o Head(files),
             part |-> st.part,
             split_files |-> st.split_files])

\* Lines 157-173: the loop over output_files; st is the loop's state.
RECURSIVE SplitLoop(_, _)
SplitLoop(files, st) ==
    IF files = <<>> THEN st
    ELSE LET content == Head(files)
             content_tokens == count_tokens(content)
         IN  IF st.current_tokens + content_tokens > params.split_threshold
             THEN SplitLoop(Tail(files),
                    [current_tokens |-> content_tokens,
                     current_content |-> content,
                     part |-> st.part + 1,
                     split_files |-> Append(st.split_files,
                         [part |-> st.part, content |-> st.current_content])])
             ELSE SplitLoop(Tail(files),
                    [current_tokens |-> st.current_tokens + content_tokens,
                     current_content |-> st.current_content \o content,
                     part |-> st.part,
                     split_files |-> st.split_files])

\* Mutant: the last part is never written.
SplitFinal_Dropped(st) == st.split_files

\* Lines 175-179: the final split file, written when current_content is not empty.
SplitFinal(st) ==
    IF st.current_content # <<>>
    THEN Append(st.split_files, [part |-> st.part, content |-> st.current_content])
    ELSE st.split_files

\* Lines 150-182: the output exceeds split_threshold and is split.
SplitOutput ==
    /\ pc = "split"
    /\ total_tokens > params.split_threshold
    /\ split_files' = SplitFinal(SplitLoop(output_files,
                         [current_tokens |-> 0, current_content |-> <<>>,
                          part |-> 1, split_files |-> <<>>]))
    /\ pc' = "done"
    /\ UNCHANGED <<fs, params, stack, output, excluded_files, log, error, total_tokens, visited>>

\* Line 150: the output is within split_threshold; nothing is split.
NoSplit ==
    /\ pc = "split"
    /\ total_tokens <= params.split_threshold
    /\ pc' = "done"
    /\ UNCHANGED <<fs, params, stack, output, excluded_files, log, error,
                   total_tokens, split_files, visited>>

Next ==
    \/ MaxDepthReturn
    \/ ListdirError
    \/ ListDirectory
    \/ ItemIgnored
    \/ ItemDirectoryTraverse
    \/ ItemDirectoryNoTraverse
    \/ ItemFileIncluded
    \/ ItemFileExcluded
    \/ ReturnFromDirectory
    \/ EstimateTokens
    \/ SplitOutput
    \/ NoSplit

Spec == Init /\ [][Next]_vars

----------------------------------------------------------------------------
(* Reading the output. *)

HeaderKinds == {"ignored", "dir", "file", "excluded"}

\* The positions of the lines of markup written about the entry p.
LinesAbout(p) == {i \in 1..Len(output) : output[i].kind # "text" /\ output[i].path = p}

\* The positions of the header lines written about the entry p.
Headers(p) == {i \in 1..Len(output) : output[i].kind \in HeaderKinds /\ output[i].path = p}

\* The positions of all header lines.
AllHeaders == {i \in 1..Len(output) : output[i].kind \in HeaderKinds}

\* The paths in the excluded-files log.
ExcludedPaths == {excluded_files[i][1] : i \in 1..Len(excluded_files)}

\* The entry p shows up somewhere: taken up by a loop, written, or logged as excluded.
Appears(p) == p \in visited \/ LinesAbout(p) # {} \/ p \in ExcludedPaths

\* Some ignore pattern matches the path p at its start.
PathMatchesPattern(p) ==
    \E i \in 1..Len(params.ignore_patterns) : re_match(params.ignore_patterns[i], p)

\* Some ignore pattern matches the name of p at its start.
NameMatchesPattern(p) ==
    \E i \in 1..Len(params.ignore_patterns) :
        re_match(params.ignore_patterns[i], basename(p))

\* The number of "/" in s.
Slashes(s) == Cardinality({i \in 1..Len(s) : s[i] = "/"})

\* The depth of the call that lists the directory p: 0 for the root.
DepthOf(p) == Slashes(p) - Slashes(params.path)

\* The positions after the header at i that belong to its block: up to the
\* next header line.
Block(i) ==
    {j \in (i+1)..Len(output) : \A k \in (i+1)..j : output[k].kind \notin HeaderKinds}

----------------------------------------------------------------------------
(* C1: an entry taken up by the walk that matches an ignore pattern and    *)
(* has an excluded extension gets exactly one line, annotated [Ignored],   *)
(* no [Excluded] line, and no entry in the excluded-files log.             *)
C1_IgnoreWinsOverExclude ==
    \A p \in visited :
        ( /\ PathMatchesPattern(p)
          /\ fs[p].kind = "file"
          /\ lower(splitext_ext(p)) \in params.exclude_extensions )
        => /\ Cardinality(LinesAbout(p)) = 1
           /\ \A i \in LinesAbout(p) : output[i].kind = "ignored"
           /\ p \notin ExcludedPaths

C1_Witness ==
    \E p \in visited :
        /\ PathMatchesPattern(p)
        /\ fs[p].kind = "file"
        /\ lower(splitext_ext(p)) \in params.exclude_extensions
        /\ pc = "done"

(* C2: every entry taken up by the walk whose path or name matches an      *)
(* ignore pattern is written as one [Ignored] line, nothing below it is    *)
(* visited and its content is not rendered.                                *)
C2_NameOrPathMatchIsIgnored ==
    \A p \in visited :
        (PathMatchesPattern(p) \/ NameMatchesPattern(p))
        => /\ Cardinality(LinesAbout(p)) = 1
           /\ \A i \in LinesAbout(p) : output[i].kind = "ignored"
           /\ \A q \in DOMAIN fs : IsAncestor(p, q) => ~Appears(q)

(* C3: a directory taken up by the walk whose name is in no_traverse_dirs  *)
(* has exactly one header line, and none of its descendants is visited,    *)
(* written or logged as excluded.                                          *)
C3_NoTraverseContainment ==
    \A p \in visited :
        (fs[p].kind = "dir" /\ basename(p) \in params.no_traverse_dirs)
        => /\ Cardinality(Headers(p)) = 1
           /\ Cardinality(LinesAbout(p)) = 1
           /\ \A q \in DOMAIN fs : IsAncestor(p, q) => ~Appears(q)

C3_Witness ==
    \E p \in visited :
        /\ fs[p].kind = "dir"
        /\ basename(p) \in params.no_traverse_dirs
        /\ ~PathMatchesPattern(p)
        /\ \E q \in DOMAIN fs : IsAncestor(p, q)
        /\ pc = "done"

(* C4 as stated: with max_depth = 0 the output holds nothing but header    *)
(* lines of the root's immediate children, no content body.                *)
C4_OnlyHeadersAtDepthZero ==
    params.max_depth = 0 =>
        \A i \in 1..Len(output) :
            /\ output[i].kind \in HeaderKinds
            /\ dirname(output[i].path) = params.path

(* C4 amended: with max_depth = 0 every line of markup is about an         *)
(* immediate child of the root, every content token lies in the block of   *)
(* an included file that is such a child, and a directory's header is      *)
(* followed by no body; nothing deeper is visited or logged.               *)
C4_DepthZeroOnlyRootChildren ==
    params.max_depth = 0 =>
        /\ \A i \in 1..Len(output) :
              IF output[i].kind = "text"
              THEN \E h \in AllHeaders : i \in Block(h) /\ output[h].kind = "file"
              ELSE dirname(output[i].path) = params.path
        /\ \A h \in AllHeaders : output[h].kind # "file" => Block(h) = {}
        /\ \A p \in visited \cup ExcludedPaths : dirname(p) = params.path

C4_Witness ==
    /\ params.max_depth = 0
    /\ pc = "done"
    /\ \E i \in 1..Len(output) : output[i].kind = "text"
    /\ \E p \in visited : fs[p].kind = "dir" /\ \E q \in DOMAIN fs : IsAncestor(p, q)
    /\ \E i \in 1..Len(log) : log[i].msg = "Max depth reached"

\* Two header lines of entries of one directory, the first written earlier.
Siblings(i, j) ==
    /\ i < j
    /\ dirname(output[i].path) = dirname(output[j].path)

(* C5 as stated: in every directory the directories come before the files, *)
(* or in every directory the files before the directories, and each group  *)
(* is in name order.                                                       *)
C5_GroupedOrder ==
    /\ \/ \A i, j \in AllHeaders :
             Siblings(i, j) =>
                 ~(fs[output[i].path].kind = "file" /\ fs[output[j].path].kind = "dir")
       \/ \A i, j \in AllHeaders :
             Siblings(i, j) =>
                 ~(fs[output[i].path].kind = "dir" /\ fs[output[j].path].kind = "file")
    /\ \A i, j \in AllHeaders :
          (Siblings(i, j) /\ fs[output[i].path].kind = fs[output[j].path].kind)
          => StrLess(output[i].item, output[j].item)

(* C5 amended: the entries of one directory are written in case-sensitive  *)
(* name order, directories and files interleaved, whatever order the       *)
(* operating system lists them in.                                         *)
C5_NameOrder ==
    \A i, j \in AllHeaders :
        Siblings(i, j) => StrLess(output[i].item, output[j].item)

C5_Witness ==
    /\ pc = "done"
    /\ \E i, j, k \in AllHeaders :
          /\ Siblings(i, j) /\ Siblings(j, k)
          /\ fs[output[i].path].kind = "dir"
          /\ fs[output[j].path].kind = "file"
          /\ fs[output[k].path].kind = "dir"

RECURSIVE Concat(_)
Concat(files) ==
    IF files = <<>> THEN <<>> ELSE Head(files).content \o Concat(Tail(files))

(* C7: when the output is split, the split files are numbered 1, 2, ...    *)
(* in the order written and their contents, put together in that order,    *)
(* are the output text.                                                    *)
C7_SplitFidelity ==
    (pc = "done" /\ total_tokens > params.split_threshold) =>
        /\ \A i \in 1..Len(split_files) : split_files[i].part = i
        /\ Concat(split_files) = output

C7_Witness ==
    /\ pc = "done"
    /\ total_tokens > params.split_threshold
    /\ Len(split_files) = 2
    /\ Len(output) > 3

(* C8: an error raised while listing a subdirectory does not end the run:  *)
(* the only listing error that may end it is that of the root.             *)
C8_ListingErrorDoesNotEndRun ==
    pc = "crashed" => error.path = params.path

(* C9 as stated: a call entered deeper than max_depth writes a             *)
(* [Max depth reached] marker to the output.                               *)
C9_MarkerWritten ==
    \A i \in 1..Len(log) :
        log[i].msg = "Max depth reached" =>
            \E j \in 1..Len(output) :
                output[j].kind = "max_depth" /\ output[j].path = log[i].path

(* C9 amended: a call entered deeper than max_depth returns at once and    *)
(* writes nothing to the output (the directory keeps the one header line   *)
(* its parent wrote; "Max depth reached" goes to the log only), and no     *)
(* entry below that directory is visited, written or logged as excluded.   *)
C9_DepthBound ==
    /\ \A p \in DOMAIN fs :
          Appears(p) => DepthOf(p) - 1 <= params.max_depth
    /\ \A p \in visited :
          (fs[p].kind = "dir" /\ DepthOf(p) > params.max_depth)
          => /\ Cardinality(LinesAbout(p)) = 1
             /\ \A i \in LinesAbout(p) : Block(i) = {}

C9_Witness ==
    /\ pc = "done"
    /\ \E i \in 1..Len(log) :
          /\ log[i].msg = "Max depth reached"
          /\ \E q \in DOMAIN fs : IsAncestor(log[i].path, q)

(* C10 as stated: whenever the output has more tokens than split_threshold *)
(* exactly two split files are written, the first empty and the second     *)
(* holding the whole output.                                               *)
C10_ExactlyTwoParts ==
    (pc = "done" /\ total_tokens > params.split_threshold) =>
        /\ Len(split_files) = 2
        /\ split_files[1] = [part |-> 1, content |-> <<>>]
        /\ split_files[2] = [part |-> 2, content |-> output]

(* C10 amended: whenever the output has more tokens than split_threshold   *)
(* the first split file is empty; if the output text is not empty there    *)
(* are exactly two, the second holding the whole output; if it is empty    *)
(* (which needs a negative split_threshold) the empty first one is all.    *)
C10_EmptyFirstPart ==
    (pc = "done" /\ total_tokens > params.split_threshold) =>
        /\ Len(split_files) >= 1
        /\ split_files[1] = [part |-> 1, content |-> <<>>]
        /\ IF output # <<>>
           THEN /\ Len(split_files) = 2
                /\ split_files[2] = [part |-> 2, content |-> output]
           ELSE Len(split_files) = 1

C10_Witness ==
    /\ pc = "done"
    /\ total_tokens > params.split_threshold
    /\ params.split_threshold >= 0
    /\ Len(split_files) = 2

====
